---- MODULE Spec2Model ----
(***************************************************************************)
(* Model of the maneuvering package: the maneuver execution engine         *)
(* (execute, execute_batch) and the quasi-circular transition planner.     *)
(*                                                                         *)
(* All angles of the program are Python floats (types.py: Scalar = float). *)
(* The model keeps the floating-point nature of the arithmetic at a        *)
(* reduced width: a value is an integer number of units, and the result    *)
(* of every addition/subtraction is rounded to Prec significant bits       *)
(* (round-to-nearest, ties-to-even), as IEEE-754 does with 53 bits.        *)
(* One revolution, 2*pi, is TwoPi units.                                   *)
(***************************************************************************)
EXTENDS Integers, Sequences, FiniteSets, TLC

VARIABLES oi, maneuvers, steps, phase, run,
          cur_e, u_e, k_e, gaps_e, ret_e,
          cur, out, abs_angles, u_cur, i, imps, res,
          call, orb_i, orb_t, devs, branch, mans, plan, stage,
          ucall, uarg, ures, ustage

\* the execution engine: inputs, the locals of execute, the locals of
\* execute_batch and the results of its finished runs
engineVars == <<oi, maneuvers, steps, phase, run,
                cur_e, u_e, k_e, gaps_e, ret_e,
                cur, out, abs_angles, u_cur, i, imps, res>>

\* the transition planner: the function called, its two orbits, the
\* deviation record, the branch taken, the solver's maneuvers, the result
planVars == <<call, orb_i, orb_t, devs, branch, mans, plan, stage>>

\* a call of one of the library's other functions: the function, its
\* arguments, its locals and result, and how far it has got
utilVars == <<ucall, uarg, ures, ustage>>

vars == <<engineVars, planVars, utilVars>>

(***************************************************************************)
(* Bounds of the model.                                                    *)
(***************************************************************************)
\* significant bits of the reduced-width float
Prec == 3
\* longest maneuver list drawn as input
MaxMan == 2
\* cap on the number of states execute_batch may record in the model
MaxOut == 26

(***************************************************************************)
(* Reduced-width floating point.                                           *)
(***************************************************************************)
RECURSIVE Pow2(_)
Pow2(n) == IF n = 0 THEN 1 ELSE 2 * Pow2(n - 1)

\* 2.0 * math.pi and math.pi: math.pi is exactly half of 2.0 * math.pi
TwoPi == Pow2(Prec + 1)
Pi == Pow2(Prec)

RECURSIVE QuantumFrom(_, _)
QuantumFrom(x, q) == IF x < q * Pow2(Prec) THEN q ELSE QuantumFrom(x, 2 * q)

\* spacing of the representable values around x >= 0
Quantum(x) == QuantumFrom(x, 1)

RoundPos(x) ==
    LET q  == Quantum(x)
        lo == (x \div q) * q
        r  == x - lo
    IN  IF 2 * r < q THEN lo
        ELSE IF 2 * r > q THEN lo + q
        ELSE IF (lo \div q) % 2 = 0 THEN lo ELSE lo + q

\* round-half-even of v to Prec significant bits, the sign kept
RoundHalfEven(v) == IF v >= 0 THEN RoundPos(v) ELSE 0 - RoundPos(0 - v)

\* the float nearest to the real x (round-half-even); the argument is
\* evaluated once
fl(x) == CHOOSE r \in { RoundHalfEven(v) : v \in { x } } : TRUE

\* Python's float % with the positive divisor 2*pi: fmod is exact and keeps
\* the sign of the dividend; a negative remainder gets the divisor added,
\* and that addition is rounded.
FloatMod(x) ==
    IF x >= 0 THEN x % TwoPi
    ELSE LET m == (0 - x) % TwoPi
         IN  IF m = 0 THEN 0 ELSE fl(TwoPi - m)

\* utils/math_tools.py normalize_angle
normalize_angle(a) ==
    LET x == FloatMod(a)
    IN  IF x < 0 THEN fl(x + TwoPi) ELSE x

\* orbit/convert.py normalize_ang (local helper of convert_cart_to_kep_true)
normalize_ang(ang) == FloatMod(fl(FloatMod(ang) + TwoPi))

(***************************************************************************)
(* Orbit states: KepTrue {a, e, w, i, raan, nu}.                           *)
(***************************************************************************)
KepTrue(a, e, w, inc, raan, nu) ==
    [a |-> a, e |-> e, w |-> w, i |-> inc, raan |-> raan, nu |-> nu]

\* largest semi-major axis / eccentricity / inclination level of the grid
MaxLevel == 3

Clamp(x) == IF x < 0 THEN 0 ELSE IF x > MaxLevel THEN MaxLevel ELSE x

Abs(x) == IF x < 0 THEN 0 - x ELSE x

\* true latitude u = w + nu (execute.py, local function u)
u(o) == normalize_angle(fl(o.w + o.nu))

\* variant of advance_by_du in which the argument of periapsis is advanced
\* together with the anomaly
advance_by_du_turning_w(o, du) ==
    [o EXCEPT !.nu = normalize_angle(fl(o.nu + du)), !.w = normalize_angle(fl(o.w + du))]

\* execute_batch.advance_by_du: replace(o, nu=normalize_angle(o.nu + du))
advance_by_du(o, du) == [o EXCEPT !.nu = normalize_angle(fl(o.nu + du))]

\* forward angular gap (m.angle - u_cur) % (2*pi)
ForwardGap(angle, ucur) == FloatMod(fl(angle - ucur))

\* apply_impulse_orb on the grid: the position, hence the point of the orbit
\* plane the craft is at, is kept; the velocity changes.  A tangential
\* component changes the semi-major axis, a radial component turns the
\* line of apsides, a normal component turns the plane and so moves the
\* ascending node from which the true latitude is counted.  The elements
\* come back through convert_cart_to_kep_true with w, raan and nu
\* normalised by normalize_ang.
apply_impulse_orb(o, dv) ==
    LET lat   == fl(o.w + o.nu)
        w2    == normalize_ang(fl(o.w + dv[1]))
        raan2 == normalize_ang(fl(o.raan + dv[3]))
        lat2  == fl(lat - dv[3])
    IN  [a    |-> Clamp(o.a + dv[2]),
         e    |-> Clamp(o.e + Abs(dv[1]) + Abs(dv[2])),
         w    |-> w2,
         i    |-> Clamp(o.i + dv[3]),
         raan |-> raan2,
         nu   |-> normalize_ang(fl(lat2 - w2))]

(***************************************************************************)
(* Inputs.                                                                 *)
(***************************************************************************)
Maneuver(dv, angle) == [dv |-> dv, angle |-> angle]

DVs == { <<0, 1, 0>>, <<1, 0, 0>>, <<0, 0, 1>> }

ManeuverAngles == { 0, 3, Pi \div 2 + 1, Pi, Pi + (Pi \div 4), TwoPi - (Pi \div 4) }

ManeuverSet == { Maneuver(dv, ang) : dv \in DVs, ang \in ManeuverAngles }

RECURSIVE SeqsUpTo(_, _)
SeqsUpTo(S, n) ==
    IF n = 0 THEN { <<>> }
    ELSE LET shorter == SeqsUpTo(S, n - 1)
         IN  shorter \cup { Append(s, x) : s \in { t \in shorter : Len(t) = n - 1 }, x \in S }

Steps == { Pi \div 4, (Pi \div 4) + 1, Pi }

InitialStates ==
    { KepTrue(1, 0, w, 0, 0, nu) : w \in { 0, 3, Pi + 2 }, nu \in { 0, 1, Pi - 1, TwoPi + (Pi \div 2) } }

NoState == KepTrue(0, 0, 0, 0, 0, 0)

\* none of the library's other functions is being called
UtilIdle ==
    /\ ucall = "none"
    /\ uarg = <<>>
    /\ ures = <<>>
    /\ ustage = "idle"

\* no planner call is in progress
PlannerIdle ==
    /\ call = "none"
    /\ orb_i = NoState
    /\ orb_t = NoState
    /\ devs = [ex |-> 0, ey |-> 0, a |-> 0, i |-> 0]
    /\ branch = "none"
    /\ mans = <<>>
    /\ plan = <<>>
    /\ stage = "idle"

(***************************************************************************)
(* execute(oi, maneuvers, mu)                                              *)
(***************************************************************************)
Init ==
    /\ oi \in InitialStates
    /\ maneuvers \in SeqsUpTo(ManeuverSet, MaxMan)
    /\ steps \in { <<s1, s2>> \in Steps \X Steps : s1 < s2 }
    /\ phase = "execute"
    /\ run = 0
    /\ cur_e = KepTrue(oi.a, oi.e, oi.w, oi.i, oi.raan, oi.nu)
    /\ u_e = normalize_angle(fl(oi.w + oi.nu))
    /\ k_e = 1
    /\ gaps_e = <<>>
    /\ ret_e = NoState
    /\ cur = NoState
    /\ out = <<>>
    /\ abs_angles = <<>>
    /\ u_cur = 0
    /\ i = 0
    /\ imps = <<>>
    /\ res = <<>>
    /\ PlannerIdle
    /\ UtilIdle

batchVars == <<cur, out, abs_angles, u_cur, i, imps, res, run>>
executeVars == <<cur_e, u_e, k_e, gaps_e, ret_e>>
inputVars == <<oi, maneuvers, steps>>

\* one iteration of the for loop of execute
ExecuteLoop ==
    /\ phase = "execute"
    /\ k_e <= Len(maneuvers)
    /\ LET m   == maneuvers[k_e]
           du  == ForwardGap(m.angle, u_e)
           adv == KepTrue(cur_e.a, cur_e.e, cur_e.w, cur_e.i, cur_e.raan,
                          normalize_angle(fl(cur_e.nu + du)))
           nxt == apply_impulse_orb(adv, m.dv)
       IN  /\ cur_e' = nxt
           /\ u_e' = normalize_angle(fl(nxt.w + nxt.nu))
           /\ gaps_e' = Append(gaps_e, [man |-> k_e, du |-> du, at |-> adv])
    /\ k_e' = k_e + 1
    /\ UNCHANGED <<ret_e, phase>>
    /\ UNCHANGED batchVars
    /\ UNCHANGED inputVars
    /\ UNCHANGED <<planVars, utilVars>>

\* variant of BatchStart in which the starting state is recorded through
\* advance_by_du(o, 0), i.e. with nu normalised
BatchStart_normalised(o) ==
    /\ cur' = advance_by_du(o, 0)
    /\ out' = <<advance_by_du(o, 0)>>
    /\ abs_angles' = <<0>>
    /\ u_cur' = u(o)
    /\ i' = 0
    /\ imps' = <<>>

\* the entry of execute_batch: cur = replace(oi); out = [cur]; abs_angles = [0.0]
BatchStart(o) ==
    /\ cur' = o
    /\ out' = <<o>>
    /\ abs_angles' = <<0>>
    /\ u_cur' = u(o)
    /\ i' = 0
    /\ imps' = <<>>

\* return cur
ExecuteReturn ==
    /\ phase = "execute"
    /\ k_e > Len(maneuvers)
    /\ ret_e' = cur_e
    /\ phase' = "batch"
    /\ run' = 1
    /\ BatchStart(oi)
    /\ UNCHANGED <<cur_e, u_e, k_e, gaps_e, res>>
    /\ UNCHANGED inputVars
    /\ UNCHANGED <<planVars, utilVars>>

Last(s) == s[Len(s)]

\* the branch du_to_m <= step of the while loop: jump, record, apply, record
BatchJump ==
    /\ phase = "batch"
    /\ i < Len(maneuvers)
    /\ Len(out) + 2 <= MaxOut
    /\ LET m       == maneuvers[i + 1]
           du_to_m == ForwardGap(m.angle, u_cur)
           pre     == IF du_to_m > 0 THEN advance_by_du(cur, du_to_m) ELSE cur
           out1    == IF du_to_m > 0 THEN Append(out, pre) ELSE out
           abs1    == IF du_to_m > 0
                      THEN Append(abs_angles, fl(Last(abs_angles) + du_to_m))
                      ELSE abs_angles
           post    == apply_impulse_orb(pre, m.dv)
       IN  /\ du_to_m <= steps[run]
           /\ cur' = post
           /\ out' = Append(out1, post)
           /\ abs_angles' = Append(abs1, Last(abs1))
           /\ u_cur' = u(post)
           /\ imps' = Append(imps, [man |-> i + 1, at |-> Len(out1), du |-> du_to_m])
    /\ i' = i + 1
    /\ UNCHANGED <<phase, run, res>>
    /\ UNCHANGED executeVars
    /\ UNCHANGED inputVars
    /\ UNCHANGED <<planVars, utilVars>>

\* variant of BatchStep in which the accumulated angle grows by the forward
\* gap to the pending maneuver instead of the step
BatchStep_adding_gap ==
    /\ phase = "batch"
    /\ i < Len(maneuvers)
    /\ Len(out) + 1 <= MaxOut
    /\ ForwardGap(maneuvers[i + 1].angle, u_cur) > steps[run]
    /\ LET nxt == advance_by_du(cur, steps[run])
       IN  /\ cur' = nxt
           /\ out' = Append(out, nxt)
           /\ abs_angles' = Append(abs_angles,
                                   fl(Last(abs_angles) + ForwardGap(maneuvers[i + 1].angle, u_cur)))
           /\ u_cur' = u(nxt)
    /\ UNCHANGED <<i, imps, phase, run, res>>
    /\ UNCHANGED executeVars
    /\ UNCHANGED inputVars
    /\ UNCHANGED <<planVars, utilVars>>

\* the else branch: a regular step of `step` along the true latitude
BatchStep ==
    /\ phase = "batch"
    /\ i < Len(maneuvers)
    /\ Len(out) + 1 <= MaxOut
    /\ ForwardGap(maneuvers[i + 1].angle, u_cur) > steps[run]
    /\ LET nxt == advance_by_du(cur, steps[run])
       IN  /\ cur' = nxt
           /\ out' = Append(out, nxt)
           /\ abs_angles' = Append(abs_angles, fl(Last(abs_angles) + steps[run]))
           /\ u_cur' = u(nxt)
    /\ UNCHANGED <<i, imps, phase, run, res>>
    /\ UNCHANGED executeVars
    /\ UNCHANGED inputVars
    /\ UNCHANGED <<planVars, utilVars>>

\* return out, abs_angles; the caller then runs execute_batch once more on
\* the same input with the second step
BatchReturn ==
    /\ phase = "batch"
    /\ i >= Len(maneuvers)
    /\ res' = Append(res, [out |-> out, abs_angles |-> abs_angles, imps |-> imps,
                           step |-> steps[run]])
    /\ IF run = 1
       THEN /\ run' = 2
            /\ BatchStart(oi)
            /\ UNCHANGED phase
       ELSE /\ phase' = "done"
            /\ UNCHANGED <<run, cur, out, abs_angles, u_cur, i, imps>>
    /\ UNCHANGED executeVars
    /\ UNCHANGED inputVars
    /\ UNCHANGED <<planVars, utilVars>>

Next ==
    \/ ExecuteLoop
    \/ ExecuteReturn
    \/ BatchJump
    \/ BatchStep
    \/ BatchReturn

Spec == Init /\ [][Next]_vars

(***************************************************************************)
(* Precondition of the engine (execute.py, docstring Warning): maneuvers   *)
(* sorted ascending by angle, first angle not behind the true latitude.    *)
(***************************************************************************)
Sorted(ms) == \A j \in 1..(Len(ms) - 1) : ms[j].angle <= ms[j + 1].angle

Precondition(o, ms) == Sorted(ms) /\ (Len(ms) > 0 => ms[1].angle >= u(o))

(***************************************************************************)
(* Claims about the execution engine.                                      *)
(***************************************************************************)

\* C1: the last state recorded by execute_batch equals, in all six
\* elements, the state execute returns on the same input, for every step.
C1_BatchLastEqualsExecute ==
    \A r \in 1..Len(res) : Last(res[r].out) = ret_e

\* C2: a regular step is taken only while the forward gap exceeds step and
\* never passes the pending maneuver (the gap shrinks, it does not wrap), and
\* every impulse is applied at a recorded state whose true latitude equals
\* the angle of the maneuver.
C2_ExactJumpNoOvershoot ==
    /\ [](\A j \in 1..Len(imps) :
             u(out[imps[j].at]) = normalize_angle(maneuvers[imps[j].man].angle))
    /\ [][BatchStep =>
             /\ ForwardGap(maneuvers[i + 1].angle, u_cur) > steps[run]
             /\ ForwardGap(maneuvers[i + 1].angle, u_cur')
                  < ForwardGap(maneuvers[i + 1].angle, u_cur)]_vars

\* C3: for every maneuver applied so far execute_batch holds two adjacent
\* records exactly at the angle of the maneuver: the state the impulse is
\* applied to and the state right after it, with the same accumulated angle.
C3_TwoRecordsAtManeuverAngle ==
    phase = "batch" =>
        \A j \in 1..i :
            \E k \in 1..(Len(out) - 1) :
                /\ u(out[k]) = normalize_angle(maneuvers[j].angle)
                /\ out[k + 1] = apply_impulse_orb(out[k], maneuvers[j].dv)
                /\ abs_angles[k + 1] = abs_angles[k]

\* C4: execute applies the maneuvers in list order, each exactly once; the
\* advance before each impulse is the forward gap, which lies in [0, 2*pi);
\* the current true latitude is recomputed from the post-impulse state.
C4_ExecuteInOrderForwardGap ==
    /\ Len(gaps_e) = k_e - 1
    /\ \A j \in 1..Len(gaps_e) :
          /\ gaps_e[j].man = j
          /\ gaps_e[j].du >= 0
          /\ gaps_e[j].du < TwoPi
    /\ u_e = u(cur_e)
    /\ phase # "execute" => Len(gaps_e) = Len(maneuvers)

\* C5: for the same initial state and maneuver list the first and the last
\* state recorded by execute_batch are the same for every two steps.
C5_StepInvariantEnds ==
    phase = "done" =>
        /\ res[1].out[1] = res[2].out[1]
        /\ Last(res[1].out) = Last(res[2].out)

\* C6: a maneuver list that is not sorted ascending, or whose first angle is
\* behind the current true latitude, is rejected: no passive advance is
\* made, no impulse is applied and no result is returned for it.
C6_PreconditionRejected ==
    ~Precondition(oi, maneuvers) =>
        /\ phase = "execute"
        /\ Len(gaps_e) = 0

MaxDev == 2

\* fixed-point scale
SC == 1000
\* deviation units per 1.0
DevPerOne == 4

\* x / y rounded to the nearest integer, halves away from zero (y > 0)
RoundDivPos(x, y) ==
    IF x >= 0 THEN (2 * x + y) \div (2 * y) ELSE 0 - ((2 * (0 - x) + y) \div (2 * y))

\* the same for a divisor of either sign (y # 0)
RoundDiv(x, y) == IF y > 0 THEN RoundDivPos(x, y) ELSE RoundDivPos(0 - x, 0 - y)

RECURSIVE SqrtBetween(_, _, _)
SqrtBetween(n, lo, hi) ==
    IF hi - lo <= 1 THEN lo
    ELSE LET mid == (lo + hi) \div 2
         IN  IF mid * mid <= n THEN SqrtBetween(n, mid, hi) ELSE SqrtBetween(n, lo, mid)

\* math.sqrt on integers: the integer nearest to the square root of n >= 0
ISqrt(n) ==
    LET r == SqrtBetween(n, 0, 46341)
    IN  IF n - r * r > r THEN r + 1 ELSE r

\* x * y and x / y of two fixed-point numbers
MulS(x, y) == RoundDiv(x * y, SC)
DivS(x, y) == RoundDiv(x * SC, y)

\* cos at the sixteen directions k * 22.5 degrees, in fixed point
Cos16 == << 1000, 924, 707, 383, 0, -383, -707, -924,
            -1000, -924, -707, -383, 0, 383, 707, 924 >>

\* the direction, 0..15, of an angle in units
Direction(ang) == ((ang % TwoPi) * 16) \div TwoPi

\* math.cos, math.sin in fixed point
CosS(ang) == Cos16[Direction(ang) + 1]
SinS(ang) == Cos16[((Direction(ang) + 12) % 16) + 1]

\* the angle, in units, of direction k (k may be negative)
AngleOf(k) == (k * TwoPi) \div 16

\* math.atan2(y, x): the direction in (-pi, pi] nearest to that of (x, y),
\* the one of largest projection; atan2(0, 0) = 0
atan2(y, x) ==
    IF x = 0 /\ y = 0 THEN 0
    ELSE LET proj(k) == x * CosS(AngleOf(k)) + y * SinS(AngleOf(k))
             best == { k \in -7..8 : \A j \in -7..8 : proj(k) >= proj(j) }
             k0 == CHOOSE k \in best : \A j \in best : Abs(k) <= Abs(j) /\ (Abs(k) = Abs(j) => k >= j)
         IN  AngleOf(k0)

\* math.acos of a fixed-point cosine in [-1, 1]: the nearest direction in
\* [0, pi]
acos(c) ==
    LET k0 == CHOOSE k \in 0..8 :
                  \A j \in 0..8 : Abs(Cos16[k + 1] - c) <= Abs(Cos16[j + 1] - c)
    IN  AngleOf(k0)

\* np.clip(x, -1.0, 1.0) in fixed point
clip(x) == IF x < 0 - SC THEN 0 - SC ELSE IF x > SC THEN SC ELSE x

\* a Keplerian orbit Kep(a, e, w, i, raan)
Kep(a, e, w, inc, raan) == [a |-> a, e |-> e, w |-> w, i |-> inc, raan |-> raan]

\* a deviation record; its field e is sqrt(ex^2 + ey^2) and is carried as
\* the square e2(d), which is all the solvers compare
TransDevs(ex, ey, a, inc) == [ex |-> ex, ey |-> ey, a |-> a, i |-> inc]

_sqr(x) == x * x

e2(d) == _sqr(d.ex) + _sqr(d.ey)

\* abs(x) < tol: a deviation below the tolerance is zero on the grid
BelowTol(x) == Abs(x) < 1

\* float(np.cos(x)), float(np.sin(x)) as floats of Prec bits, in units of
\* 1 / 2^Prec
CosF(ang) == RoundDiv(CosS(ang) * Pow2(Prec), SC)
SinF(ang) == RoundDiv(SinS(ang) * Pow2(Prec), SC)

\* a float product or sum of non-negative or negative values
flS(x) == IF x >= 0 THEN RoundPos(x) ELSE 0 - RoundPos(0 - x)

\* trans_devs(oi, ot)
trans_devs(o1, o2) ==
    LET ex_i == RoundDiv(o1.e * CosS(o1.w), SC)
        ey_i == RoundDiv(o1.e * SinS(o1.w), SC)
        ex_t == RoundDiv(o2.e * CosS(o2.w), SC)
        ey_t == RoundDiv(o2.e * SinS(o2.w), SC)
        d_a  == RoundDiv(DevPerOne * 2 * (o2.a - o1.a), o1.a + o2.a)
        d_raan == fl(o2.raan - o1.raan)
        one2 == Pow2(Prec) * Pow2(Prec)
        prod == flS(RoundDiv(flS(SinF(o2.i) * SinF(o1.i)) * CosF(d_raan), Pow2(Prec)))
        sum  == flS(flS(CosF(o2.i) * CosF(o1.i)) + prod)
        cos_phi == IF sum > one2 THEN one2 ELSE IF sum < 0 - one2 THEN 0 - one2 ELSE sum
        \* 2 sin(arccos(c) / 2) = sqrt(2 (1 - c))
        mag  == ISqrt((2 * DevPerOne * DevPerOne * (one2 - cos_phi) * 64) \div one2)
        sign == IF o2.i > o1.i THEN 1 ELSE -1
    IN  TransDevs(ex_t - ex_i, ey_t - ey_i, d_a, sign * RoundDiv(mag, 8))

\* gravitational parameter handed to the planner
mu == 3600

\* reference_orbit(oi, ot, mu): r is carried doubled
reference_orbit(o1, o2) ==
    [r |-> o1.a + o2.a, v |-> ISqrt((2 * mu) \div (o1.a + o2.a))]

cross(p, q) ==
    << MulS(p[2], q[3]) - MulS(p[3], q[2]),
       MulS(p[3], q[1]) - MulS(p[1], q[3]),
       MulS(p[1], q[2]) - MulS(p[2], q[1]) >>

dot(p, q) == MulS(p[1], q[1]) + MulS(p[2], q[2]) + MulS(p[3], q[3])

\* np.linalg.norm of a fixed-point vector
norm(p) == ISqrt(p[1] * p[1] + p[2] * p[2] + p[3] * p[3])

\* v / n for a fixed-point vector v and its norm n > 0
over(p, n) == << DivS(p[1], n), DivS(p[2], n), DivS(p[3], n) >>

\* normal_vector(i, raan) in fixed point
normal_vector(inc, raan) ==
    << MulS(SinS(inc), SinS(raan)), 0 - MulS(SinS(inc), CosS(raan)), CosS(inc) >>

\* intersection_angle(oi, ot), from the line phi = arctan2(dot(e2, n), dot(e1, n))
\* on: n is n_tmp with its sign, e1 and e2 the periapsis basis
phi_of(n, e1, e2v) ==
    LET n_norm == norm(n)
    IN  IF n_norm = 0 THEN 0
        ELSE normalize_angle(atan2(dot(e2v, over(n, n_norm)), dot(e1, over(n, n_norm))))

\* intersection_angle(oi, ot), from e1 = l1 * cw + l2 * sw on
periapsis_basis(n1, n_tmp, l1, l2, cw, sw) ==
    LET e1   == << MulS(l1[1], cw) + MulS(l2[1], sw),
                   MulS(l1[2], cw) + MulS(l2[2], sw),
                   MulS(l1[3], cw) + MulS(l2[3], sw) >>
        sign == IF dot(n_tmp, l1) >= 0 THEN 1 ELSE -1
    IN  phi_of(<< sign * n_tmp[1], sign * n_tmp[2], sign * n_tmp[3] >>, e1, cross(n1, e1))

\* intersection_angle(oi, ot), from l1 on: the ascending node of the
\* initial orbit
ascending_node(n1, n_tmp, asc_vec, cw, sw) ==
    LET asc_norm == norm(asc_vec)
        l1 == IF asc_norm # 0 THEN over(asc_vec, asc_norm) ELSE <<SC, 0, 0>>
    IN  periapsis_basis(n1, n_tmp, l1, cross(n1, l1), cw, sw)

\* intersection_angle(oi, ot), from n_tmp = np.cross(n1, n2) on
plane_normals(n1, n2, cw, sw) ==
    ascending_node(n1, cross(n1, n2), cross(<<0, 0, SC>>, n1), cw, sw)

\* intersection_angle(oi, ot)
intersection_angle(o1, o2) ==
    plane_normals(normal_vector(o1.i, o1.raan), normal_vector(o2.i, o2.raan),
                  CosS(o1.w), SinS(o1.w))

(***************************************************************************)
(* The solvers.  A solver returns the list of its maneuvers, with          *)
(* dimensionless dv in fixed point, or raises; the result records which    *)
(* leaf function produced it.                                              *)
(***************************************************************************)
Returns(leaf, ms) == [raised |-> FALSE, branch |-> leaf, mans |-> ms]
Raises(leaf) == [raised |-> TRUE, branch |-> leaf, mans |-> <<>>]

\* coplanar_intersected(devs)
coplanar_intersected(d) ==
    LET e    == ISqrt(e2(d) * SC * SC)
        ang1 == atan2(d.ey, d.ex)
        imp1 == << 0, RoundDiv(d.a * SC + e, 4), 0 >>
        ang2 == fl(ang1 + Pi)
        imp2 == << 0, RoundDiv(d.a * SC - e, 4), 0 >>
    IN  Returns("coplanar_intersected", << Maneuver(imp1, ang1), Maneuver(imp2, ang2) >>)

\* the value of a numpy scalar division 0.0 / 0.0 and of every operation on
\* it: not a number, no exception (coplanar.py computes with numpy only)
NaN == 0 - 1000000000

\* x * y in floating point
times(x, y) == IF x = NaN \/ y = NaN THEN NaN ELSE x * y

\* x < y in floating point: false when one side is not a number
less(x, y) == x # NaN /\ y # NaN /\ x < y

\* math.isfinite(x)
isfinite(x) == x # NaN

\* coplanar_non_intersecting(devs): the quotient for dvt1 is 0.0 / 0.0 when
\* the denominator vanishes, and dvt2 and angle2 are computed from it
coplanar_non_intersecting(d) ==
    LET ang1  == atan2(d.ey, d.ex)
        den1  == d.ey * SinS(ang1) + d.ex * CosS(ang1) - d.a * SC
        dvt1  == RoundDiv(DivS((e2(d) - _sqr(d.a)) * SC, den1), 4)
        dvt2  == RoundDiv(d.a * SC, 2) - dvt1
        ang2  == atan2(DivS(RoundDiv(d.ey * SC, 2) - MulS(dvt1, SinS(ang1)), dvt2),
                       DivS(RoundDiv(d.ex * SC, 2) - MulS(dvt1, CosS(ang1)), dvt2))
    IN  IF den1 = 0
        THEN Returns("coplanar_non_intersecting",
                     << Maneuver(<<0, NaN, 0>>, ang1), Maneuver(<<0, NaN, 0>>, NaN) >>)
        ELSE Returns("coplanar_non_intersecting",
                     << Maneuver(<<0, dvt1, 0>>, ang1),
                        Maneuver(<<0, dvt2, 0>>, IF dvt2 = 0 THEN NaN ELSE ang2) >>)

\* variant of solve_coplanar_sys in which is_intersect is devs.e >= abs(devs.a)
solve_coplanar_sys_boundary_intersects(d) ==
    LET is_coincide  == e2(d) = 0 /\ BelowTol(d.a)
        is_intersect == e2(d) >= _sqr(d.a)
    IN  IF is_coincide THEN Returns("coincide", <<>>)
        ELSE IF is_intersect THEN coplanar_intersected(d)
        ELSE coplanar_non_intersecting(d)

\* solve_coplanar_sys(devs)
solve_coplanar_sys(d) ==
    LET is_coincide  == e2(d) = 0 /\ BelowTol(d.a)
        is_intersect == e2(d) > _sqr(d.a)
    IN  IF is_coincide THEN Returns("coincide", <<>>)
        ELSE IF is_intersect THEN coplanar_intersected(d)
        ELSE coplanar_non_intersecting(d)

\* variant of nodal_case_without_ex in which both impulses carry +i/2 along
\* the normal
nodal_case_without_ex_same_normal(d) ==
    Returns("nodal_case_without_ex",
            << Maneuver(<< RoundDiv(0 - d.ey * SC, 2), 0, RoundDiv(d.i * SC, 2) >>, 0),
               Maneuver(<< RoundDiv(d.ey * SC, 2), 0, RoundDiv(d.i * SC, 2) >>, Pi) >>)

\* nodal_case_without_ex(devs)
nodal_case_without_ex(d) ==
    Returns("nodal_case_without_ex",
            << Maneuver(<< RoundDiv(0 - d.ey * SC, 2), 0, RoundDiv(d.i * SC, 2) >>, 0),
               Maneuver(<< RoundDiv(d.ey * SC, 2), 0, RoundDiv(0 - d.i * SC, 2) >>, Pi) >>)

\* nodal_case_with_ex(devs)
nodal_case_with_ex(d) ==
    LET ex == d.ex
        t1 == RoundDiv((d.a + ex) * SC, 4)
        r1 == RoundDiv((0 - (d.a + ex)) * d.ey * SC, 2 * ex)
        n1 == RoundDiv((d.a + ex) * d.i * SC, 2 * ex)
        t2 == RoundDiv((d.a - ex) * SC, 4)
        r2 == RoundDiv((0 - (d.a - ex)) * d.ey * SC, 2 * ex)
        n2 == RoundDiv((d.a - ex) * d.i * SC, 2 * ex)
    IN  Returns("nodal_case_with_ex",
                << Maneuver(<<r1, t1, n1>>, 0), Maneuver(<<r2, t2, n2>>, Pi) >>)

\* noncoplanar_nodal(devs)
noncoplanar_nodal(d) ==
    IF BelowTol(d.ex) THEN nodal_case_without_ex(d) ELSE nodal_case_with_ex(d)

\* nondegenerate_case_without_e(devs)
nondegenerate_case_without_e(d) ==
    Returns("nondegenerate_case_without_e",
            << Maneuver(<< 0, RoundDiv(d.a * SC, 4), RoundDiv(d.i * SC, 2) >>, 0),
               Maneuver(<< 0, RoundDiv(d.a * SC, 4), RoundDiv(0 - d.i * SC, 2) >>, Pi) >>)

\* variant of nondegenerate_case_without_ey in which both impulses are
\* applied at the angle 0
nondegenerate_case_without_ey_same_angle(d) ==
    Returns("nondegenerate_case_without_ey",
            << Maneuver(<< 0, RoundDiv((d.a + d.ex) * SC, 4), RoundDiv(d.i * SC, 2) >>, 0),
               Maneuver(<< 0, RoundDiv((d.a - d.ex) * SC, 4), RoundDiv(0 - d.i * SC, 2) >>, 0) >>)

\* nondegenerate_case_without_ey(devs)
nondegenerate_case_without_ey(d) ==
    Returns("nondegenerate_case_without_ey",
            << Maneuver(<< 0, RoundDiv((d.a + d.ex) * SC, 4), RoundDiv(d.i * SC, 2) >>, 0),
               Maneuver(<< 0, RoundDiv((d.a - d.ex) * SC, 4), RoundDiv(0 - d.i * SC, 2) >>, Pi) >>)

\* abs(math.sin(theta)) as the split of the total dv sees it: the float sine
\* of a non-zero multiple of pi is not 0.0 but a rounding residue that
\* grows with the angle
sin_abs(theta) ==
    IF SinS(theta) # 0 THEN Abs(SinS(theta)) * SC
    ELSE IF theta % Pi = 0 THEN Abs(theta) \div Pi ELSE 0

\* nondegenerate_case_with_e(devs), from the direction cosines on
with_e_impulses(delta_v, lam, theta1, theta2) ==
    LET c1 == CosS(theta1)
        s1 == SinS(theta1)
        dir_r == MulS(lam[3], s1) - MulS(lam[2], c1)
        dir_t == 2 * lam[1] + 2 * MulS(lam[2], s1) + 2 * MulS(lam[3], c1)
        dir_n == MulS(lam[4], s1) + MulS(lam[5], c1)
        s1_abs == sin_abs(theta1)
        s2_abs == sin_abs(theta2)
        delta == IF s1_abs = 0 /\ s2_abs = 0 THEN SC \div 2
                 ELSE RoundDiv(s1_abs * SC, s1_abs + s2_abs)
        dv1 == MulS(delta_v, SC - delta)
        dv2 == MulS(delta_v, delta)
    IN  Returns("nondegenerate_case_with_e",
                << Maneuver(<< MulS(dir_r, dv1), MulS(dir_t, dv1), MulS(dir_n, dv1) >>, theta1),
                   Maneuver(<< MulS(0 - dir_r, dv2), MulS(dir_t, dv2), MulS(0 - dir_n, dv2) >>,
                            theta2) >>)

\* nondegenerate_case_with_e(devs), from cos_dtheta = np.clip(num / den, ...) on
with_e_angles(delta_v, lam, theta0, num, den) ==
    IF den = 0 THEN Raises("nondegenerate_case_with_e")
    ELSE LET dtheta == acos(clip(DivS(num, den)))
             theta1 == fl(theta0 + dtheta)
         IN  with_e_impulses(delta_v, lam, theta1, fl(2 * theta0 - theta1))

\* nondegenerate_case_with_e(devs), from theta0 = math.atan2(lam2, lam3) on
with_e_lambdas(delta_v, lam) ==
    LET m2 == ISqrt(_sqr(lam[2]) + _sqr(lam[3]))
        m4 == MulS(MulS(m2, m2), MulS(m2, m2))
        x  == MulS(lam[3], lam[4]) - MulS(lam[2], lam[5])
    IN  with_e_angles(delta_v, lam, atan2(lam[2], lam[3]),
                      4 * MulS(lam[1], MulS(m2, MulS(m2, m2))),
                      MulS(x, x) - 3 * m4)

\* devs.x / (2.0 * delta_v)
half(x, delta_v) == DivS(x * SC, 2 * delta_v)

\* nondegenerate_case_with_e(devs), the lambda parameters
with_e_delta_v(d, mult1, denom, delta_v) ==
    IF delta_v = 0 THEN Raises("nondegenerate_case_with_e")
    ELSE with_e_lambdas(delta_v,
           << MulS(half(d.a, delta_v), DivS(mult1 * SC, denom) - (SC \div 2)),
              MulS(half(d.ey, delta_v),
                   SC - DivS((_sqr(d.a) - _sqr(d.i) - e2(d)) * SC, denom)),
              MulS(half(d.ex, delta_v), SC - DivS(mult1 * SC, denom)),
              MulS(half(0 - d.ey, delta_v), DivS(2 * d.i * d.ex * SC, denom)),
              MulS(half(d.i, delta_v),
                   SC + DivS((_sqr(d.i) - _sqr(d.ex) + _sqr(d.ey) + _sqr(d.a)) * SC, denom)) >>)

\* nondegenerate_case_with_e(devs), from delta_v on
with_e_denom(d, mult1, denom) ==
    IF denom = 0 THEN Raises("nondegenerate_case_with_e")
    ELSE with_e_delta_v(d, mult1, denom,
           ISqrt(RoundDiv(2 * (_sqr(d.i) + e2(d)) * SC - _sqr(d.a) * SC + 2 * denom, 4) * SC))

\* nondegenerate_case_with_e(devs), from denom on
with_e_mult1(d, mult1) ==
    with_e_denom(d, mult1, ISqrt((_sqr(mult1) + 4 * _sqr(d.i) * _sqr(d.ey)) * SC * SC))

\* nondegenerate_case_with_e(devs)
nondegenerate_case_with_e(d) == with_e_mult1(d, _sqr(d.i) - e2(d) + _sqr(d.a))

\* noncoplanar_degenerate(devs)
noncoplanar_degenerate(d) ==
    LET ey_zero == BelowTol(d.ey)
        ex_zero == BelowTol(d.ex)
    IN  IF ey_zero /\ ex_zero THEN nondegenerate_case_without_e(d)
        ELSE IF ey_zero THEN nondegenerate_case_without_ey(d)
        ELSE nondegenerate_case_with_e(d)

\* math.sqrt(3.0) in fixed point
Sqrt3 == 1732

Det2(p, q, r, t) == MulS(p, t) - MulS(q, r)

\* x = A^T y
lstsq_solution(c1, s1, c2, s2, y1, y2, y3) ==
    << 2 * MulS(c1, y1) + 2 * MulS(s1, y2) + 2 * y3,
       2 * MulS(c2, y1) + 2 * MulS(s2, y2) + 2 * y3,
       2 * y1 + 2 * y3,
       0 - y2 >>

\* y = (A A^T)^(-1) b by the adjugate k of g = A A^T
lstsq_adjugate(c1, s1, c2, s2, b, k11, k12, k13, k22, k23, k33, det) ==
    lstsq_solution(c1, s1, c2, s2,
        DivS(MulS(k11, b[1]) + MulS(k12, b[2]) + MulS(k13, b[3]), det),
        DivS(MulS(k12, b[1]) + MulS(k22, b[2]) + MulS(k23, b[3]), det),
        DivS(MulS(k13, b[1]) + MulS(k23, b[2]) + MulS(k33, b[3]), det))

lstsq_cofactors(c1, s1, c2, s2, b, g11, g12, g13, k11, k12, k13, k22, k23, k33) ==
    lstsq_adjugate(c1, s1, c2, s2, b, k11, k12, k13, k22, k23, k33,
                   MulS(g11, k11) + MulS(g12, k12) + MulS(g13, k13))

lstsq_gram(c1, s1, c2, s2, b, g11, g12, g13, g22, g23, g33) ==
    lstsq_cofactors(c1, s1, c2, s2, b, g11, g12, g13,
                    Det2(g22, g23, g23, g33), 0 - Det2(g12, g23, g13, g33),
                    Det2(g12, g22, g13, g23), Det2(g11, g13, g13, g33),
                    0 - Det2(g11, g12, g13, g23), Det2(g11, g12, g12, g22))

\* np.linalg.lstsq(A, b): the solution of least norm, A^T (A A^T)^(-1) b,
\* of the 3 x 4 system of noncoplanar_singular, whose rows are independent
lstsq(c1, s1, c2, s2, b) ==
    lstsq_gram(c1, s1, c2, s2, b,
               4 * MulS(c1, c1) + 4 * MulS(c2, c2) + 4 * SC,
               4 * MulS(c1, s1) + 4 * MulS(c2, s2),
               4 * c1 + 4 * c2 + 4 * SC,
               4 * MulS(s1, s1) + 4 * MulS(s2, s2) + SC,
               4 * s1 + 4 * s2,
               12 * SC)

\* noncoplanar_singular(devs), from the list of maneuvers on
singular_impulses(d, phi1, phi2, sol) ==
    Returns("noncoplanar_singular",
            << Maneuver(<< 0, sol[1], 0 >>, phi1),
               Maneuver(<< 0, sol[2], 0 >>, phi2),
               Maneuver(<< sol[4], sol[3], d.i * SC >>, 0) >>)

\* noncoplanar_singular(devs), from phi1 = theta0, phi2 = theta0 + math.pi on
singular_angles(d, phi1, phi2) ==
    singular_impulses(d, phi1, phi2,
                      lstsq(CosS(phi1), SinS(phi1), CosS(phi2), SinS(phi2),
                            << d.ex * SC, d.ey * SC, d.a * SC >>))

singular_theta0(d, theta0) == singular_angles(d, theta0, fl(theta0 + Pi))

\* variant of noncoplanar_singular in which theta0 is atan2(ey, ex)
noncoplanar_singular_theta0_of_e(d) == singular_theta0(d, atan2(d.ey * SC, d.ex * SC))

\* noncoplanar_singular(devs)
noncoplanar_singular(d) == singular_theta0(d, atan2(Sqrt3 * d.i + d.ey * SC, d.ex * SC))

\* cond3 of solve_noncoplanar_sys, e^2 + (2/sqrt(3)) ey i - i^2 <= a^2, decided
\* exactly: with p = ey i and q = a^2 - e^2 + i^2 it reads 2 p <= sqrt(3) q
cond3(d) ==
    LET p == d.ey * d.i
        q == _sqr(d.a) - e2(d) + _sqr(d.i)
    IN  IF p <= 0 /\ q >= 0 THEN TRUE
        ELSE IF p > 0 /\ q < 0 THEN FALSE
        ELSE IF p > 0 THEN 4 * p * p <= 3 * q * q
        ELSE 4 * p * p >= 3 * q * q

\* solve_noncoplanar_sys(devs)
solve_noncoplanar_sys(d) ==
    LET cond1 == 3 * _sqr(d.ey) <= _sqr(d.i)
        cond2 == _sqr(d.a) <= _sqr(d.ex)
    IN  IF cond1 /\ cond2 THEN noncoplanar_nodal(d)
        ELSE IF (~cond2) /\ cond3(d) THEN noncoplanar_degenerate(d)
        ELSE noncoplanar_singular(d)

(***************************************************************************)
(* The assemblers.                                                         *)
(***************************************************************************)
\* m placed into the list ms, sorted by angle, behind the maneuvers of equal
\* angle
RECURSIVE InsertByAngle(_, _)
InsertByAngle(ms, m) ==
    IF ms = <<>> THEN << m >>
    ELSE IF less(m.angle, Head(ms).angle) THEN << m >> \o ms
    ELSE << Head(ms) >> \o InsertByAngle(Tail(ms), m)

\* list.sort(key=lambda m: m.angle): stable, ascending
RECURSIVE SortByAngle(_)
SortByAngle(ms) ==
    IF ms = <<>> THEN <<>>
    ELSE InsertByAngle(SortByAngle(SubSeq(ms, 1, Len(ms) - 1)), ms[Len(ms)])

\* [Maneuver(dv=m.dv * ref.v, angle=normalize_angle(intersect_angle + m.angle)) for m in mans]
\* followed by the sort
scaled_sorted(ms, intersect_angle, ref) ==
    SortByAngle([ k \in 1..Len(ms) |->
        Maneuver(<< times(ms[k].dv[1], ref.v), times(ms[k].dv[2], ref.v),
                    times(ms[k].dv[3], ref.v) >>,
                 IF ms[k].angle = NaN THEN NaN
                 ELSE normalize_angle(fl(intersect_angle + ms[k].angle))) ])

\* variant of coplanar_anchor in which the anchor is the argument of
\* periapsis itself
coplanar_anchor_at_w(o1) == normalize_angle(o1.w)

\* the anchor of coplanar_analytical: normalize_angle(2.0 * np.pi - oi.w)
coplanar_anchor(o1) == normalize_angle(fl(TwoPi - o1.w))

\* orbits handed to the planner
PlanOrbits ==
    { Kep(a, e, w, inc, 0) :
        a \in { 4, 6 }, e \in 0..MaxDev,
        w \in { 0, 1, Pi \div 2, Pi - 1, Pi + (Pi \div 2) },
        inc \in { 0, 1, 2 } }

\* deviation records handed directly to a solver
DevRecords ==
    { TransDevs(ex, ey, a, inc) :
        ex \in (0 - MaxDev)..MaxDev, ey \in (0 - MaxDev)..MaxDev,
        a \in (0 - MaxDev)..MaxDev, inc \in (0 - MaxDev)..MaxDev }

NoDevs == TransDevs(0, 0, 0, 0)
NoOrbit == Kep(0, 0, 0, 0, 0)

\* the engine is not running
EngineIdle ==
    /\ oi = NoState
    /\ maneuvers = <<>>
    /\ steps = <<0, 0>>
    /\ phase = "idle"
    /\ run = 0
    /\ cur_e = NoState
    /\ u_e = 0
    /\ k_e = 1
    /\ gaps_e = <<>>
    /\ ret_e = NoState
    /\ cur = NoState
    /\ out = <<>>
    /\ abs_angles = <<>>
    /\ u_cur = 0
    /\ i = 0
    /\ imps = <<>>
    /\ res = <<>>

\* a call of one of the planner's functions with its arguments
PlanInit ==
    /\ EngineIdle
    /\ UtilIdle
    /\ call \in { "analytical_transition", "coplanar_analytical", "noncoplanar_analytical",
                  "solve_coplanar_sys", "solve_noncoplanar_sys" }
    /\ IF call \in { "solve_coplanar_sys", "solve_noncoplanar_sys" }
       THEN /\ orb_i = NoOrbit
            /\ orb_t = NoOrbit
            /\ devs \in DevRecords
       ELSE /\ orb_i \in PlanOrbits
            /\ orb_t \in PlanOrbits
            /\ devs = NoDevs
    /\ branch = "none"
    /\ mans = <<>>
    /\ plan = <<>>
    /\ stage = "called"

\* the return of a solver called directly: its list, or the exception
Solved(r) ==
    /\ branch' = r.branch
    /\ mans' = r.mans
    /\ plan' = r.mans
    /\ stage' = IF r.raised THEN "raised" ELSE "returned"

\* the return of an assembler: the solver's list, rescaled, re-anchored and
\* sorted, or the solver's exception
Assembled(r, intersect_angle, ref) ==
    /\ branch' = r.branch
    /\ mans' = r.mans
    /\ plan' = scaled_sorted(r.mans, intersect_angle, ref)
    /\ stage' = IF r.raised THEN "raised" ELSE "returned"

\* solve_noncoplanar_sys(devs) called directly
SolveNoncoplanarSys ==
    /\ call = "solve_noncoplanar_sys"
    /\ stage = "called"
    /\ Solved(solve_noncoplanar_sys(devs))
    /\ UNCHANGED <<call, orb_i, orb_t, devs>>
    /\ UNCHANGED <<engineVars, utilVars>>

\* solve_coplanar_sys(devs) called directly
SolveCoplanarSys ==
    /\ call = "solve_coplanar_sys"
    /\ stage = "called"
    /\ Solved(solve_coplanar_sys(devs))
    /\ UNCHANGED <<call, orb_i, orb_t, devs>>
    /\ UNCHANGED <<engineVars, utilVars>>

\* variant of AnalyticalTransition that delegates to the coplanar planner
\* when abs(devs.i) <= 2 deviation units instead of abs(devs.i) < tol
AnalyticalTransition_wide_tol ==
    /\ call = "analytical_transition"
    /\ stage = "called"
    /\ devs' = trans_devs(orb_i, orb_t)
    /\ stage' = IF Abs(devs'.i) <= 2 THEN "coplanar_analytical" ELSE "noncoplanar_analytical"
    /\ UNCHANGED <<call, orb_i, orb_t, branch, mans, plan>>
    /\ UNCHANGED <<engineVars, utilVars>>

\* analytical_transition(oi, ot, mu) up to the call it ends in
AnalyticalTransition ==
    /\ call = "analytical_transition"
    /\ stage = "called"
    /\ devs' = trans_devs(orb_i, orb_t)
    /\ stage' = IF BelowTol(devs'.i) THEN "coplanar_analytical" ELSE "noncoplanar_analytical"
    /\ UNCHANGED <<call, orb_i, orb_t, branch, mans, plan>>
    /\ UNCHANGED <<engineVars, utilVars>>

\* coplanar_analytical(oi, ot, mu), called directly or by analytical_transition
CoplanarAnalytical ==
    /\ \/ call = "coplanar_analytical" /\ stage = "called"
       \/ call = "analytical_transition" /\ stage = "coplanar_analytical"
    /\ devs' = trans_devs(orb_i, orb_t)
    /\ Assembled(solve_coplanar_sys(devs'), coplanar_anchor(orb_i),
                 reference_orbit(orb_i, orb_t))
    /\ UNCHANGED <<call, orb_i, orb_t>>
    /\ UNCHANGED <<engineVars, utilVars>>

\* noncoplanar_analytical(oi, ot, mu), called directly or by
\* analytical_transition
NoncoplanarAnalytical ==
    /\ \/ call = "noncoplanar_analytical" /\ stage = "called"
       \/ call = "analytical_transition" /\ stage = "noncoplanar_analytical"
    /\ devs' = trans_devs(orb_i, orb_t)
    /\ Assembled(solve_noncoplanar_sys(devs'), intersection_angle(orb_i, orb_t),
                 reference_orbit(orb_i, orb_t))
    /\ UNCHANGED <<call, orb_i, orb_t>>
    /\ UNCHANGED <<engineVars, utilVars>>

PlanNext ==
    \/ SolveNoncoplanarSys
    \/ SolveCoplanarSys
    \/ AnalyticalTransition
    \/ CoplanarAnalytical
    \/ NoncoplanarAnalytical

PlanSpec == PlanInit /\ [][PlanNext]_vars

(***************************************************************************)
(* Claims about the transition planner.                                    *)
(***************************************************************************)
Assemblers == { "analytical_transition", "coplanar_analytical", "noncoplanar_analytical" }

Finished == stage \in { "returned", "raised" }

\* C8: every maneuver list returned by coplanar_analytical,
\* noncoplanar_analytical and analytical_transition is sorted in
\* non-decreasing order of angle, and every angle in it lies in [0, 2 pi).
C8_PlanSortedAnglesNormalized ==
    (call \in Assemblers /\ stage = "returned") =>
        /\ Sorted(plan)
        /\ \A k \in 1..Len(plan) : 0 <= plan[k].angle /\ plan[k].angle < TwoPi

\* C9: for every pair of identical orbits, analytical_transition and
\* coplanar_analytical return an empty maneuver list.
C9_IdenticalOrbitsEmptyPlan ==
    (call \in { "analytical_transition", "coplanar_analytical" } /\ Finished /\ orb_i = orb_t) =>
        (stage = "returned" /\ plan = <<>>)

NodalLeaves == { "nodal_case_without_ex", "nodal_case_with_ex" }
DegenerateLeaves == { "nondegenerate_case_without_e", "nondegenerate_case_without_ey",
                      "nondegenerate_case_with_e" }
SingularLeaves == { "noncoplanar_singular" }

\* C10: solve_noncoplanar_sys takes the nodal branch iff cond1 and cond2
\* hold, the degenerate branch iff cond2 fails and cond3 holds, the singular
\* branch in every other case; it returns 2 maneuvers from the nodal and the
\* degenerate branch and 3 from the singular one, for every deviation record.
C10_BranchSelectionAndCounts ==
    (call = "solve_noncoplanar_sys" /\ Finished) =>
        LET cond1 == 3 * _sqr(devs.ey) <= _sqr(devs.i)
            cond2 == _sqr(devs.a) <= _sqr(devs.ex)
        IN  /\ (branch \in NodalLeaves) <=> (cond1 /\ cond2)
            /\ (branch \in DegenerateLeaves) <=> ((~cond2) /\ cond3(devs))
            /\ (branch \in SingularLeaves) <=>
                   (~(cond1 /\ cond2) /\ ~((~cond2) /\ cond3(devs)))
            /\ stage = "returned"
            /\ Len(mans) = IF branch \in SingularLeaves THEN 3 ELSE 2

(***************************************************************************)
(* Claims about the coplanar solver and the dispatch.                      *)
(***************************************************************************)
\* C11: solve_coplanar_sys returns the empty list exactly when |e| < tol and
\* |a| < tol; otherwise it returns exactly two maneuvers, computed by the
\* intersecting formulas exactly when e > |a| and by the non-intersecting
\* formulas exactly when e <= |a|; each impulse is purely tangential (its
\* radial and normal components are 0).
C11_CoplanarSelectionTangential ==
    (call = "solve_coplanar_sys" /\ Finished) =>
        LET is_coincide == e2(devs) = 0 /\ BelowTol(devs.a)
        IN  /\ stage = "returned"
            /\ (mans = <<>>) <=> is_coincide
            /\ (~is_coincide) =>
                   /\ Len(mans) = 2
                   /\ (e2(devs) > _sqr(devs.a)) =>
                          (branch = "coplanar_intersected"
                               /\ mans = coplanar_intersected(devs).mans)
                   /\ (e2(devs) <= _sqr(devs.a)) =>
                          (branch = "coplanar_non_intersecting"
                               /\ mans = coplanar_non_intersecting(devs).mans)
                   /\ \A k \in 1..2 : mans[k].dv[1] = 0 /\ mans[k].dv[3] = 0

\* solve_coplanar_sys has returned the two maneuvers of the non-intersecting
\* formulas for a record on the boundary e = |a|
W_C11 ==
    /\ call = "solve_coplanar_sys"
    /\ stage = "returned"
    /\ branch = "coplanar_non_intersecting"
    /\ e2(devs) = _sqr(devs.a)
    /\ Len(mans) = 2

CoplanarLeaves == { "coincide", "coplanar_intersected", "coplanar_non_intersecting" }

\* C12: analytical_transition delegates to the coplanar planner exactly when
\* |devs.i| < tol and to the non-coplanar planner otherwise; its result has 0
\* or 2 maneuvers in the coplanar case and 2 or 3 in the non-coplanar case.
C12_DispatchAndCounts ==
    /\ (call = "analytical_transition" /\ stage = "coplanar_analytical") => BelowTol(devs.i)
    /\ (call = "analytical_transition" /\ stage = "noncoplanar_analytical") => ~BelowTol(devs.i)
    /\ (call = "analytical_transition" /\ Finished) =>
           /\ stage = "returned"
           /\ devs = trans_devs(orb_i, orb_t)
           /\ IF BelowTol(devs.i)
              THEN branch \in CoplanarLeaves /\ Len(plan) \in { 0, 2 }
              ELSE /\ branch \in NodalLeaves \cup DegenerateLeaves \cup SingularLeaves
                   /\ Len(plan) \in { 2, 3 }

\* analytical_transition has returned the three maneuvers of the non-coplanar
\* planner for orbits with an inclination deviation
W_C12 ==
    /\ call = "analytical_transition"
    /\ stage = "returned"
    /\ ~BelowTol(devs.i)
    /\ Len(plan) = 3

(***************************************************************************)
(* The residual of the linearised system (test_system_residuals.py).       *)
(***************************************************************************)
\* x + y in floating point
plus(x, y) == IF x = NaN \/ y = NaN THEN NaN ELSE x + y

\* the fixed-point product of x and y in floating point
timesS(x, y) == IF x = NaN \/ y = NaN THEN NaN ELSE MulS(x, y)

\* math.sin(m.angle), math.cos(m.angle)
sin_of(ang) == IF ang = NaN THEN NaN ELSE SinS(ang)
cos_of(ang) == IF ang = NaN THEN NaN ELSE CosS(ang)

\* the contribution of one maneuver to the five sums, given s and c
lhs_terms(dv, s, c) ==
    << plus(timesS(dv[1], s), timesS(times(2, dv[2]), c)),
       plus(timesS(0 - dv[1], c), timesS(times(2, dv[2]), s)),
       times(2, dv[2]),
       timesS(0 - dv[3], s),
       timesS(dv[3], c) >>

\* the sum of two vectors of five
plus5(p, q) == [ k \in 1..5 |-> plus(p[k], q[k]) ]

\* calc_left_hand_side(mans)
RECURSIVE calc_left_hand_side(_)
calc_left_hand_side(ms) ==
    IF ms = <<>> THEN << 0, 0, 0, 0, 0 >>
    ELSE plus5(lhs_terms(Head(ms).dv, sin_of(Head(ms).angle), cos_of(Head(ms).angle)),
               calc_left_hand_side(Tail(ms)))

\* abs(x - y) in floating point
dist(x, y) == IF x = NaN \/ y = NaN THEN NaN ELSE Abs(x - y)

\* the tolerance of the residual in the equations that depend on the angles:
\* one deviation unit, the resolution of the 16 directions
GridTol == SC

\* x is a number and within tol of y
within(x, y, tol) == isfinite(x) /\ isfinite(y) /\ Abs(x - y) <= tol

\* C13: for every coplanar deviation record the maneuvers returned by
\* solve_coplanar_sys satisfy sum(dv_r sin + 2 dv_t cos) = ex,
\* sum(-dv_r cos + 2 dv_t sin) = ey and sum(2 dv_t) = a within tolerance,
\* and every sum is finite.
C13_CoplanarResiduals ==
    (call = "solve_coplanar_sys" /\ Finished /\ BelowTol(devs.i)) =>
        /\ stage = "returned"
        /\ within(calc_left_hand_side(mans)[1], devs.ex * SC, GridTol)
        /\ within(calc_left_hand_side(mans)[2], devs.ey * SC, GridTol)
        /\ within(calc_left_hand_side(mans)[3], devs.a * SC, 0)

\* the tolerance of the residual of the non-coplanar system: a hundredth of a
\* deviation unit
ResidualTol == SC \div 100

\* the five sums of ms are finite and within tol of (ex, ey, a, 0, i)
residuals_within(ms, d, tol) ==
    /\ within(calc_left_hand_side(ms)[1], d.ex * SC, tol)
    /\ within(calc_left_hand_side(ms)[2], d.ey * SC, tol)
    /\ within(calc_left_hand_side(ms)[3], d.a * SC, tol)
    /\ within(calc_left_hand_side(ms)[4], 0, tol)
    /\ within(calc_left_hand_side(ms)[5], d.i * SC, tol)

C15_NoncoplanarNeverRaises ==
    (call = "solve_noncoplanar_sys" /\ Finished) =>
        /\ stage = "returned"
        /\ (branch = "nodal_case_with_ex") => ~BelowTol(devs.ex)

(***************************************************************************)
(* The library's other functions, called one at a time with their          *)
(* arguments: orbit construction, trans_devs, reference_orbit,             *)
(* mean_motion.                                                            *)
(***************************************************************************)
\* orbits handed to a function that receives an orbit: semi-major axes
\* negative, zero and positive, eccentricities (in quarters) below 0, in
\* [0, 1), equal to 1 and above 1
AnyOrbits ==
    { Kep(a, e, w, inc, 0) :
        a \in { 0 - 4, 0, 4, 6 },
        e \in { 0 - 1, 0, MaxDev, DevPerOne, DevPerOne + 1 },
        w \in { 0, Pi \div 2 },
        inc \in { 0, 1 } }

\* the orbit is one the specification admits: a > 0 and 0 <= e < 1
valid_orbit(o) == o.a > 0 /\ 0 <= o.e /\ o.e < DevPerOne

\* the end of a call: its result, or the exception
UtilReturns(r) == ures' = r /\ ustage' = "returned"
UtilRaises(exc) == ures' = exc /\ ustage' = "raised"

UtilFinished == ustage \in { "returned", "raised" }

\* Keplerian(a=..., e=..., w=..., i=..., raan=...): the dataclass stores the
\* five fields
KeplerianConstruct ==
    /\ ucall = "Keplerian"
    /\ ustage = "called"
    /\ UtilReturns(Kep(uarg[1].a, uarg[1].e, uarg[1].w, uarg[1].i, uarg[1].raan))
    /\ UNCHANGED <<ucall, uarg>>
    /\ UNCHANGED <<engineVars, planVars>>

\* trans_devs(oi, ot): the quotient by a_ref raises ZeroDivisionError when
\* a_i + a_t = 0; nothing else stops the function
TransDevsCall ==
    /\ ucall = "trans_devs"
    /\ ustage = "called"
    /\ IF uarg[1].a + uarg[2].a = 0
       THEN UtilRaises("ZeroDivisionError")
       ELSE UtilReturns(trans_devs(uarg[1], uarg[2]))
    /\ UNCHANGED <<ucall, uarg>>
    /\ UNCHANGED <<engineVars, planVars>>

\* reference_orbit(oi, ot, mu): mu / radius raises ZeroDivisionError when
\* the radius is 0; np.sqrt of a negative quotient is nan
ReferenceOrbitCall ==
    /\ ucall = "reference_orbit"
    /\ ustage = "called"
    /\ IF uarg[1].a + uarg[2].a = 0
       THEN UtilRaises("ZeroDivisionError")
       ELSE IF uarg[1].a + uarg[2].a < 0
       THEN UtilReturns([r |-> uarg[1].a + uarg[2].a, v |-> NaN])
       ELSE UtilReturns(reference_orbit(uarg[1], uarg[2]))
    /\ UNCHANGED <<ucall, uarg>>
    /\ UNCHANGED <<engineVars, planVars>>

\* mean_motion(mu, a) of dynamics/kepler.py
mean_motion(mu_, a) == ISqrt(mu_ \div (a * a * a))

MeanMotionCall ==
    /\ ucall = "mean_motion"
    /\ ustage = "called"
    /\ IF uarg[1].a <= 0
       THEN UtilRaises("ValueError")
       ELSE UtilReturns(mean_motion(mu, uarg[1].a))
    /\ UNCHANGED <<ucall, uarg>>
    /\ UNCHANGED <<engineVars, planVars>>

\* the calls that receive one orbit and the calls that receive two
ValidationInit ==
    /\ EngineIdle
    /\ PlannerIdle
    /\ ucall \in { "Keplerian", "trans_devs", "reference_orbit", "mean_motion" }
    /\ IF ucall \in { "Keplerian", "mean_motion" }
       THEN uarg \in { << o >> : o \in AnyOrbits }
       ELSE uarg \in AnyOrbits \X AnyOrbits
    /\ ures = <<>>
    /\ ustage = "called"

ValidationNext ==
    \/ KeplerianConstruct
    \/ TransDevsCall
    \/ ReferenceOrbitCall
    \/ MeanMotionCall

ValidationSpec == ValidationInit /\ [][ValidationNext]_vars

\* the call has received an orbit with a non-positive semi-major axis or an
\* eccentricity outside [0, 1) (mean_motion receives the semi-major axis only)
invalid_input ==
    IF ucall = "mean_motion" THEN uarg[1].a <= 0
    ELSE \E k \in 1..Len(uarg) : ~valid_orbit(uarg[k])

\* C17: an orbit with non-positive semi-major axis or with eccentricity
\* outside [0, 1) is reported as an error immediately by the operation that
\* receives it (orbit construction, trans_devs, reference_orbit,
\* mean_motion) and is never processed further.
C17_InvalidOrbitReported ==
    (ucall \in { "Keplerian", "trans_devs", "reference_orbit", "mean_motion" }
        /\ UtilFinished /\ invalid_input) => ustage = "raised"

(***************************************************************************)
(* calc_orb_sys(pos, vel)                                                  *)
(***************************************************************************)
NaN3 == << NaN, NaN, NaN >>

\* some component of the vector is not a number
has_nan(p) == \E k \in 1..3 : p[k] = NaN

\* normalize(v) of utils/math_tools.py: v / n with n = float(np.linalg.norm(v));
\* an array divided by 0.0 is an array of nan, without exception
normalize(v) ==
    IF has_nan(v) THEN NaN3
    ELSE IF norm(v) = 0 THEN NaN3
    ELSE over(v, norm(v))

\* np.cross of two vectors in floating point
np_cross(p, q) == IF has_nan(p) \/ has_nan(q) THEN NaN3 ELSE cross(p, q)

\* OrbitalSystem(r=r, t=t, n=n)
OrbitalSystem(r, t, n) == [r |-> r, t |-> t, n |-> n]

\* calc_orb_sys from the line t = np.cross(n, r) on
orb_sys_of(r, n) == OrbitalSystem(r, np_cross(n, r), n)

\* calc_orb_sys(pos, vel)
calc_orb_sys(pos, vel) == orb_sys_of(normalize(pos), normalize(np_cross(pos, vel)))

\* positions and velocities in fixed point, the zero vector and parallel
\* pairs among them
Vectors == { << x, y, z >> : x \in { 0 - SC, 0, SC }, y \in { 0 - SC, 0, SC }, z \in { 0, SC } }

CalcOrbSys ==
    /\ ucall = "calc_orb_sys"
    /\ ustage = "called"
    /\ UtilReturns(calc_orb_sys(uarg[1], uarg[2]))
    /\ UNCHANGED <<ucall, uarg>>
    /\ UNCHANGED <<engineVars, planVars>>

OrbSysInit ==
    /\ EngineIdle
    /\ PlannerIdle
    /\ ucall = "calc_orb_sys"
    /\ uarg \in Vectors \X Vectors
    /\ ures = <<>>
    /\ ustage = "called"

OrbSysNext == CalcOrbSys

OrbSysSpec == OrbSysInit /\ [][OrbSysNext]_vars

\* every component of the basis is a number
finite_basis(o) == ~has_nan(o.r) /\ ~has_nan(o.t) /\ ~has_nan(o.n)

\* C18: calc_orb_sys raises ValueError when the position is the zero vector
\* or position x velocity is the zero vector, instead of returning a basis
\* with non-finite components; so a basis that is returned is finite and no
\* impulse is rotated by a non-finite matrix.
C18_DegenerateOrbSysRaises ==
    (ucall = "calc_orb_sys" /\ UtilFinished) =>
        /\ (norm(uarg[1]) = 0 \/ norm(cross(uarg[1], uarg[2])) = 0) =>
               (ustage = "raised" /\ ures = "ValueError")
        /\ (ustage = "returned") => finite_basis(ures)

(***************************************************************************)
(* calc_eccentric_from_mean(M, e, max_newton_iter, tol): angles in         *)
(* thousandths of a radian, eccentricity in thousandths.                   *)
(***************************************************************************)
\* the largest max_newton_iter handed to the solver
MaxNewton == 4

\* pi / 2, pi and 2 pi in thousandths of a radian
HalfPiS == 1571
PiS == 3142
TwoPiS == 6283

\* the angle x brought into [-pi, pi)
wrap(x) == ((x + PiS) % TwoPiS) - PiS

\* the Taylor polynomial of the sine, x - x^3/6 + x^5/120 - x^7/5040, from
\* x, x^2 and x^3
sin_terms(x, x2, x3) ==
    x - RoundDiv(x3, 6) + RoundDiv(MulS(x3, x2), 120)
      - RoundDiv(MulS(MulS(x3, x2), x2), 5040)

sin_taylor(x, x2) == sin_terms(x, x2, MulS(x2, x))

\* the sine of an angle in [-pi, pi), folded into [-pi/2, pi/2]
sin_wrapped(y) ==
    IF y > HalfPiS THEN sin_taylor(PiS - y, MulS(PiS - y, PiS - y))
    ELSE IF y < 0 - HalfPiS THEN sin_taylor(0 - PiS - y, MulS(0 - PiS - y, 0 - PiS - y))
    ELSE sin_taylor(y, MulS(y, y))

\* math.sin(x), math.cos(x)
math_sin(x) == sin_wrapped(wrap(x))
math_cos(x) == sin_wrapped(wrap(x + HalfPiS))

\* normalize_angle(a) on thousandths of a radian
normalize_angle_S(a) == a % TwoPiS

\* the starting value: E = (M_n - e) if (M_n > math.pi) else (M_n + e)
newton_start(M_n, e) == IF M_n > PiS THEN M_n - e ELSE M_n + e

\* the denominator 1.0 - e * cos_E and the numerator M_n + e * sin_E - E
newton_den(e, E) == SC - MulS(e, math_cos(E))
newton_num(M_n, e, E) == M_n + MulS(e, math_sin(E)) - E

\* the arguments of the calls
NewtonArgs ==
    { [M |-> M, e |-> e, max_newton_iter |-> n, tol |-> tol] :
        M \in { 0 - 1000, 0, 500, 3000, PiS, 4000, TwoPiS, 7000 },
        e \in { 0, 300, 900, 990 },
        n \in { 0, 1, 2, MaxNewton },
        tol \in { 1, 3 } }

\* the first two lines of the function
NewtonStart ==
    /\ ucall = "calc_eccentric_from_mean"
    /\ ustage = "called"
    /\ ures' = [M_n |-> normalize_angle_S(uarg.M),
                E |-> newton_start(normalize_angle_S(uarg.M), uarg.e),
                deltas |-> <<>>]
    /\ ustage' = "loop"
    /\ UNCHANGED <<ucall, uarg>>
    /\ UNCHANGED <<engineVars, planVars>>

\* the state after one pass of the loop body with the update delta
newton_updated(delta) ==
    /\ ures' = [ures EXCEPT !.E = ures.E + delta, !.deltas = Append(ures.deltas, delta)]
    /\ ustage' = IF Abs(delta) < uarg.tol THEN "returned" ELSE "loop"

\* variant of NewtonUpdate in which the loop has no bound
NewtonUpdate_unbounded ==
    /\ ucall = "calc_eccentric_from_mean"
    /\ ustage = "loop"
    /\ Len(ures.deltas) < MaxNewton + 2
    /\ IF newton_den(uarg.e, ures.E) = 0
       THEN ustage' = "raised" /\ UNCHANGED ures
       ELSE newton_updated(DivS(newton_num(ures.M_n, uarg.e, ures.E),
                                newton_den(uarg.e, ures.E)))
    /\ UNCHANGED <<ucall, uarg>>
    /\ UNCHANGED <<engineVars, planVars>>

\* one pass of the loop body: for _ in range(int(max_newton_iter))
NewtonUpdate ==
    /\ ucall = "calc_eccentric_from_mean"
    /\ ustage = "loop"
    /\ Len(ures.deltas) < uarg.max_newton_iter
    /\ IF newton_den(uarg.e, ures.E) = 0
       THEN ustage' = "raised" /\ UNCHANGED ures
       ELSE newton_updated(DivS(newton_num(ures.M_n, uarg.e, ures.E),
                                newton_den(uarg.e, ures.E)))
    /\ UNCHANGED <<ucall, uarg>>
    /\ UNCHANGED <<engineVars, planVars>>

\* the range is exhausted: return E
NewtonCap ==
    /\ ucall = "calc_eccentric_from_mean"
    /\ ustage = "loop"
    /\ Len(ures.deltas) >= uarg.max_newton_iter
    /\ ustage' = "returned"
    /\ UNCHANGED <<ucall, uarg, ures>>
    /\ UNCHANGED <<engineVars, planVars>>

NewtonInit ==
    /\ EngineIdle
    /\ PlannerIdle
    /\ ucall = "calc_eccentric_from_mean"
    /\ uarg \in NewtonArgs
    /\ ures = <<>>
    /\ ustage = "called"

NewtonNext ==
    \/ NewtonStart
    \/ NewtonUpdate
    \/ NewtonCap

NewtonSpec == NewtonInit /\ [][NewtonNext]_vars

RECURSIVE SumSeq(_)
SumSeq(s) == IF s = <<>> THEN 0 ELSE Head(s) + SumSeq(Tail(s))

\* C19: calc_eccentric_from_mean performs at most max_newton_iter Newton
\* updates and always returns without raising; it returns the iterate at
\* which |delta E| < tol first holds, otherwise the last iterate at the cap.
C19_NewtonBoundedReturns ==
    (ucall = "calc_eccentric_from_mean" /\ ustage \in { "loop", "returned", "raised" }) =>
        /\ Len(ures.deltas) <= uarg.max_newton_iter
        /\ ustage # "raised"
        /\ \A j \in 1..(Len(ures.deltas) - 1) : Abs(ures.deltas[j]) >= uarg.tol
        /\ ures.E = newton_start(ures.M_n, uarg.e) + SumSeq(ures.deltas)
        /\ (ustage = "returned") =>
               \/ Len(ures.deltas) > 0 /\ Abs(ures.deltas[Len(ures.deltas)]) < uarg.tol
               \/ Len(ures.deltas) = uarg.max_newton_iter
        /\ (ustage = "loop" /\ Len(ures.deltas) > 0) =>
               Abs(ures.deltas[Len(ures.deltas)]) >= uarg.tol

\* the solver has returned at the cap after max_newton_iter > 0 updates none
\* of which was below tol
W_C19 ==
    /\ ucall = "calc_eccentric_from_mean"
    /\ ustage = "returned"
    /\ uarg.max_newton_iter > 0
    /\ Len(ures.deltas) = uarg.max_newton_iter
    /\ Abs(ures.deltas[Len(ures.deltas)]) >= uarg.tol

(***************************************************************************)
(* apply_impulse_eci(o, imp_eci, mu), in exact arithmetic.  A Cartesian    *)
(* state is named by what its position and velocity vectors are functions  *)
(* of: the shape of the orbit, its plane, the direction of the periapsis   *)
(* and the direction of the craft, both counted in the plane from the      *)
(* reference direction e1 of convert_cart_to_kep_true (the ascending node, *)
(* or the x axis when the node vector vanishes), and the velocity added.   *)
(***************************************************************************)
\* an angle reduced to [0, 2 pi): (ang % two_pi + two_pi) % two_pi
mod2pi(ang) == ((ang % TwoPi) + TwoPi) % TwoPi

\* the angle from the x axis to the ascending node that the in-plane angles
\* of r and v absorb when sin(i) = 0
absorbed(o) == IF o.i = 0 THEN o.raan ELSE 0

\* what r and v of convert_kep_true_to_cart(o) depend on
geometry(o) ==
    [a     |-> o.a,
     e     |-> o.e,
     i     |-> o.i,
     node  |-> IF o.i = 0 THEN 0 ELSE mod2pi(o.raan),
     peri  |-> IF o.e = 0 THEN 0 ELSE mod2pi(o.w + absorbed(o)),
     lat   |-> mod2pi(o.w + o.nu + absorbed(o))]

\* Cart(r=r, v=v)
Cart(r, v) == [r |-> r, v |-> v]

\* convert_kep_true_to_cart(o, mu); the elements of an orbit that were read
\* off a Cartesian state give that state back
convert_kep_true_to_cart(o) ==
    IF "cart" \in DOMAIN o THEN o.cart
    ELSE Cart(geometry(o), [of |-> geometry(o), plus |-> <<0, 0, 0>>])

\* variant of elements_of in which nu is counted from e1 instead of g1
elements_of_nu_from_node(g, raan, w_noise) ==
    [a    |-> g.a,
     e    |-> g.e,
     w    |-> IF g.e = 0 THEN w_noise
              ELSE mod2pi(g.peri - (IF g.i = 0 THEN raan ELSE 0)),
     i    |-> g.i,
     raan |-> raan,
     nu   |-> mod2pi(g.lat - (IF g.i = 0 THEN raan ELSE 0))]

\* the elements convert_cart_to_kep_true reads off the geometry g: raan is
\* the direction of e1, w the angle from e1 to g1 and nu the angle from g1
\* to r; g1 is the direction of the eccentricity vector, which for e = 0 is
\* rounding noise
elements_of(g, raan, w_noise) ==
    [a    |-> g.a,
     e    |-> g.e,
     w    |-> IF g.e = 0 THEN w_noise
              ELSE mod2pi(g.peri - (IF g.i = 0 THEN raan ELSE 0)),
     i    |-> g.i,
     raan |-> raan,
     nu   |-> mod2pi(g.lat - (IF g.i = 0 THEN raan ELSE 0)
                        - (IF g.e = 0 THEN w_noise
                           ELSE mod2pi(g.peri - (IF g.i = 0 THEN raan ELSE 0))))]

\* convert_cart_to_kep_true(o, mu): e1 is node / node_norm, and for sin(i) = 0
\* the node vector is rounding noise (raan_noise)
convert_cart_to_kep_true(c, raan_noise, w_noise) ==
    IF c.v.plus # <<0, 0, 0>> \/ c.v.of # c.r THEN [cart |-> c]
    ELSE elements_of(c.r, IF c.r.i = 0 THEN raan_noise ELSE c.r.node, w_noise)

\* cart_new = Cart(r=cart.r, v=cart.v + imp_eci)
cart_new(cart, imp) ==
    Cart(cart.r, [cart.v EXCEPT !.plus = << cart.v.plus[1] + imp[1],
                                            cart.v.plus[2] + imp[2],
                                            cart.v.plus[3] + imp[3] >>])

\* apply_impulse_eci(o, imp_eci, mu)
apply_impulse_eci(o, imp, raan_noise, w_noise) ==
    convert_cart_to_kep_true(cart_new(convert_kep_true_to_cart(o), imp), raan_noise, w_noise)

\* the 16 directions
Directions == 0..(TwoPi - 1)

\* orbits handed to apply_impulse_eci: circular and elliptic, equatorial and
\* inclined, angles inside and outside [0, 2 pi)
ImpulseOrbits ==
    { KepTrue(a, e, w, inc, raan, nu) :
        a \in { 1, 2 }, e \in { 0, 1 }, w \in { 0, 3 }, inc \in { 0, 2 },
        raan \in { 0, 5 }, nu \in { 0, 4, TwoPi + 2 } }

Impulses == { << 1, 0, 0 >>, << 0, 0 - 1, 2 >> }

\* o1 = apply_impulse_eci(o, imp_eci, mu)
ApplyImpulse ==
    /\ ucall = "apply_impulse_eci"
    /\ ustage = "called"
    /\ \E raan_noise \in Directions, w_noise \in Directions :
          ures' = [cart     |-> convert_kep_true_to_cart(uarg.o),
                   cart_new |-> cart_new(convert_kep_true_to_cart(uarg.o), uarg.imp),
                   o1       |-> apply_impulse_eci(uarg.o, uarg.imp, raan_noise, w_noise),
                   o2       |-> NoState]
    /\ ustage' = "applied"
    /\ UNCHANGED <<ucall, uarg>>
    /\ UNCHANGED <<engineVars, planVars>>

\* o2 = apply_impulse_eci(o1, -imp_eci, mu)
ApplyReverse ==
    /\ ucall = "apply_impulse_eci"
    /\ ustage = "applied"
    /\ \E raan_noise \in Directions, w_noise \in Directions :
          ures' = [cart     |-> convert_kep_true_to_cart(ures.o1),
                   cart_new |-> cart_new(convert_kep_true_to_cart(ures.o1),
                                         << 0 - uarg.imp[1], 0 - uarg.imp[2], 0 - uarg.imp[3] >>),
                   o1       |-> ures.o1,
                   o2       |-> apply_impulse_eci(ures.o1,
                                    << 0 - uarg.imp[1], 0 - uarg.imp[2], 0 - uarg.imp[3] >>,
                                    raan_noise, w_noise)]
    /\ ustage' = "reverted"
    /\ UNCHANGED <<ucall, uarg>>
    /\ UNCHANGED <<engineVars, planVars>>

ImpulseInit ==
    /\ EngineIdle
    /\ PlannerIdle
    /\ ucall = "apply_impulse_eci"
    /\ uarg \in { [o |-> o, imp |-> imp] : o \in ImpulseOrbits, imp \in Impulses }
    /\ ures = <<>>
    /\ ustage = "called"

ImpulseNext ==
    \/ ApplyImpulse
    \/ ApplyReverse

ImpulseSpec == ImpulseInit /\ [][ImpulseNext]_vars

\* the impulse of the last application has changed the velocity and has left
\* the position as it was
only_velocity_changed ==
    /\ ures.cart_new.r = ures.cart.r
    /\ ures.cart_new.v # ures.cart.v

\* the orbit has a periapsis and an ascending node, and its angles are in
\* [0, 2 pi)
well_defined_elements(o) ==
    /\ o.e # 0
    /\ o.i % Pi # 0
    /\ o.w = mod2pi(o.w)
    /\ o.raan = mod2pi(o.raan)
    /\ o.nu = mod2pi(o.nu)

KepMean(a, e, w, inc, raan, M) ==
    [a |-> a, e |-> e, w |-> w, i |-> inc, raan |-> raan, M |-> M]

\* the gravitational parameter in the units of the propagation grid
mu_grid == 64

\* orbit/utils.py mean_motion: math.sqrt(mu / a) / a
utils_mean_motion(a, mu_) == ISqrt(mu_ \div a) \div a

\* an angle in fixed-point radians as a number of units of the angle grid
units_of(x) == RoundDiv(x * TwoPi, TwoPiS)

\* the angle reduced to [0, 2 pi) on the angle grid
normalize_angle_grid(x) == x % TwoPi

\* calc_mean_from_eccentric(E, e)
calc_mean_from_eccentric(E, e) ==
    normalize_angle_grid(normalize_angle_grid(E)
                         - units_of(MulS(e, SinS(normalize_angle_grid(E)))))

\* calc_eccentric_from_true(nu, e)
eccentric_from_true_atan2(nu, e) ==
    atan2(MulS(SinS(nu), ISqrt(SC * SC - e * e)), e + CosS(nu))

calc_eccentric_from_true(nu, e) ==
    IF eccentric_from_true_atan2(nu, e) >= 0
    THEN eccentric_from_true_atan2(nu, e)
    ELSE eccentric_from_true_atan2(nu, e) + TwoPi

\* calc_mean_from_true(nu, e)
calc_mean_from_true(nu, e) ==
    normalize_angle_grid(calc_mean_from_eccentric(calc_eccentric_from_true(nu, e), e))

\* delta = (M_n + e * sin_E - E) / (1.0 - e * cos_E), in units
newton_delta_grid(M_n, e, E) ==
    RoundDiv((M_n - E) * SC + units_of(MulS(e, SinS(E)) * SC), SC - MulS(e, CosS(E)))

\* the loop of calc_eccentric_from_mean with n passes left; a delta below
\* tol is a delta of no unit
RECURSIVE newton_loop_grid(_, _, _, _)
newton_loop_grid(M_n, e, E, n) ==
    IF n = 0 THEN E
    ELSE IF newton_delta_grid(M_n, e, E) = 0 THEN E
    ELSE newton_loop_grid(M_n, e, E + newton_delta_grid(M_n, e, E), n - 1)

\* calc_eccentric_from_mean(M, e, max_newton_iter, tol)
calc_eccentric_from_mean(M, e, max_newton_iter) ==
    newton_loop_grid(normalize_angle_grid(M), e,
                     IF normalize_angle_grid(M) > Pi
                     THEN normalize_angle_grid(M) - units_of(e)
                     ELSE normalize_angle_grid(M) + units_of(e),
                     max_newton_iter)

\* calc_true_from_eccentric(E, e)
true_from_eccentric_atan2(E, e) ==
    atan2(MulS(SinS(E), ISqrt(SC * SC - e * e)), CosS(E) - e)

calc_true_from_eccentric(E, e) ==
    IF true_from_eccentric_atan2(E, e) >= 0
    THEN true_from_eccentric_atan2(E, e)
    ELSE true_from_eccentric_atan2(E, e) + TwoPi

\* calc_true_from_mean(M, e, max_iter, tol)
calc_true_from_mean(M, e, max_iter) ==
    normalize_angle_grid(calc_true_from_eccentric(calc_eccentric_from_mean(M, e, max_iter), e))

\* propagate_mean_anomaly(M, a, dt, mu): M + mean_motion(a, mu) * dt
propagate_mean_anomaly(M, a, dt, mu_) == M + utils_mean_motion(a, mu_) * dt

\* TWO_PI * math.floor(x / TWO_PI)
whole_turns(x) == TwoPi * (x \div TwoPi)

\* the new mean anomaly inside propagate_true_anomaly
true_new_M(nu, a, e, dt, mu_) ==
    propagate_mean_anomaly(calc_mean_from_true(nu - whole_turns(nu), e), a, dt, mu_)

\* propagate_true_anomaly(nu, a, e, dt, mu): new_nu + main_new_M + main_nu
propagate_true_anomaly(nu, a, e, dt, mu_) ==
    calc_true_from_mean(true_new_M(nu, a, e, dt, mu_) - whole_turns(true_new_M(nu, a, e, dt, mu_)),
                        e, MaxNewton)
    + whole_turns(true_new_M(nu, a, e, dt, mu_)) + whole_turns(nu)

\* the orbits and time intervals handed to the propagators; a = 0 makes
\* mean_motion divide by zero
PropagateArgs ==
    { [a |-> a, e |-> e, w |-> w, i |-> inc, raan |-> 2, anomaly |-> an, dt |-> dt] :
        a \in { 0, 1, 4 }, e \in { 0, 50, 500 }, w \in { 0, 3 }, inc \in { 0, 1 },
        an \in { 0, 3, Pi, TwoPi - 1, TwoPi + 5, 0 - 2 }, dt \in { 0 - 3, 0, 1, 5, TwoPi } }

\* propagate_mean(o, dt, mu)
PropagateMean ==
    /\ ucall = "propagate_mean"
    /\ ustage = "called"
    /\ IF uarg.o.a = 0
       THEN UtilRaises("ZeroDivisionError")
       ELSE UtilReturns(KepMean(uarg.o.a, uarg.o.e, uarg.o.w, uarg.o.i, uarg.o.raan,
                                propagate_mean_anomaly(uarg.o.M, uarg.o.a, uarg.dt, mu_grid)))
    /\ UNCHANGED <<ucall, uarg>>
    /\ UNCHANGED <<engineVars, planVars>>

\* propagate_true(o, dt, mu)
PropagateTrue ==
    /\ ucall = "propagate_true"
    /\ ustage = "called"
    /\ IF uarg.o.a = 0
       THEN UtilRaises("ZeroDivisionError")
       ELSE UtilReturns(KepTrue(uarg.o.a, uarg.o.e, uarg.o.w, uarg.o.i, uarg.o.raan,
                                propagate_true_anomaly(uarg.o.nu, uarg.o.a, uarg.o.e,
                                                       uarg.dt, mu_grid)))
    /\ UNCHANGED <<ucall, uarg>>
    /\ UNCHANGED <<engineVars, planVars>>

\* a call of a propagator
PropagateInit ==
    /\ EngineIdle
    /\ PlannerIdle
    /\ ucall \in { "propagate_mean", "propagate_true" }
    /\ \E p \in PropagateArgs :
          uarg = [o  |-> IF ucall = "propagate_mean"
                         THEN KepMean(p.a, p.e, p.w, p.i, p.raan, p.anomaly)
                         ELSE KepTrue(p.a, p.e, p.w, p.i, p.raan, p.anomaly),
                  dt |-> p.dt]
    /\ ures = <<>>
    /\ ustage = "called"

\* every passive advance of the library: the propagators and the engine
AdvanceInit ==
    \/ Init
    \/ PropagateInit

AdvanceNext ==
    \/ Next
    \/ PropagateMean
    \/ PropagateTrue

AdvanceSpec == AdvanceInit /\ [][AdvanceNext]_vars

\* the orbit p is the orbit o but for the anomaly
same_but_anomaly(o, p) ==
    /\ p.a = o.a /\ p.e = o.e /\ p.w = o.w /\ p.i = o.i /\ p.raan = o.raan

\* C21: passive advance changes only the anomaly: the orbit returned by
\* propagate_mean and by propagate_true, the state execute advances to before
\* an impulse, and the state a step or a jump of execute_batch advances to
\* have the a, e, w, i and raan of the orbit advanced.
C21_AdvanceChangesOnlyAnomaly ==
    /\ []((ucall \in { "propagate_mean", "propagate_true" } /\ ustage = "returned") =>
            same_but_anomaly(uarg.o, ures))
    /\ [][/\ ExecuteLoop => same_but_anomaly(cur_e, Last(gaps_e').at)
          /\ BatchStep => same_but_anomaly(cur, cur') /\ Last(out') = cur'
          /\ BatchJump => same_but_anomaly(cur, out'[Last(imps').at])]_vars

\* propagate_true has returned an eccentric orbit with another true anomaly
W_C21 ==
    /\ ucall = "propagate_true"
    /\ ustage = "returned"
    /\ uarg.o.e > 0
    /\ ures.nu # uarg.o.nu
    /\ ures.nu # uarg.o.nu + utils_mean_motion(uarg.o.a, mu_grid) * uarg.dt

(***************************************************************************)
(* Claims about the branches of the non-coplanar solver.                   *)
(***************************************************************************)
\* the solver has returned from the degenerate branch
degenerate_returned ==
    /\ call = "solve_noncoplanar_sys"
    /\ stage = "returned"
    /\ branch \in DegenerateLeaves

is_post_impulse(k) == \E j \in 1..Len(imps) : imps[j].at + 1 = k
is_jump(k) == \E j \in 1..Len(imps) : imps[j].at = k /\ imps[j].du > 0

\* the forward gap of the jump that wrote record k, counted from the record
\* before it
jump_gap(k) ==
    LET j == CHOOSE j \in 1..Len(imps) : imps[j].at = k
    IN  ForwardGap(maneuvers[imps[j].man].angle, u(out[k - 1]))

\* C23: in execute_batch the state list and the accumulated-angle list have
\* the same length; the first accumulated angle is 0; the angles are
\* non-decreasing; a regular step adds step, a jump adds the gap, and the
\* record written after an impulse carries the accumulated angle of the
\* record before it (sums as the floating-point addition gives them).
C23_AccumulatedAngles ==
    phase = "batch" =>
        /\ Len(out) = Len(abs_angles)
        /\ abs_angles[1] = 0
        /\ \A k \in 2..Len(out) :
              /\ abs_angles[k - 1] <= abs_angles[k]
              /\ IF is_post_impulse(k) THEN abs_angles[k] = abs_angles[k - 1]
                 ELSE IF is_jump(k)
                      THEN abs_angles[k] = fl(abs_angles[k - 1] + jump_gap(k))
                      ELSE abs_angles[k] = fl(abs_angles[k - 1] + steps[run])

\* execute_batch has recorded a regular step, then a jump, then the state
\* after the impulse
W_C23 ==
    /\ phase = "batch"
    /\ Len(out) >= 4
    /\ is_post_impulse(4)
    /\ is_jump(3)
    /\ abs_angles[2] = steps[run]
    /\ abs_angles[3] > abs_angles[2]
    /\ abs_angles[4] = abs_angles[3]

(***************************************************************************)
(* Claims about the transition assemblers.                                 *)
(***************************************************************************)
\* the anchor the claim names: normalize(2 pi - w_initial) in the coplanar
\* case, the plane-intersection angle in the non-coplanar case
claimed_anchor ==
    IF branch \in CoplanarLeaves THEN normalize_angle(fl(TwoPi - orb_i.w))
    ELSE intersection_angle(orb_i, orb_t)

\* the solver maneuver m rescaled by v = sqrt(mu / ((a_initial + a_target) / 2))
\* and re-anchored
claimed_output(m) ==
    Maneuver(<< times(m.dv[1], ISqrt((2 * mu) \div (orb_i.a + orb_t.a))),
                times(m.dv[2], ISqrt((2 * mu) \div (orb_i.a + orb_t.a))),
                times(m.dv[3], ISqrt((2 * mu) \div (orb_i.a + orb_t.a))) >>,
             IF m.angle = NaN THEN NaN ELSE normalize_angle(fl(claimed_anchor + m.angle)))

C25_SingularThreeImpulses ==
    (call = "solve_noncoplanar_sys" /\ Finished /\ branch \in SingularLeaves) =>
        /\ stage = "returned"
        /\ Len(mans) = 3
        /\ mans[1].angle = atan2(Sqrt3 * devs.i + devs.ey * SC, devs.ex * SC)
        /\ mans[2].angle = fl(mans[1].angle + Pi)
        /\ mans[3].angle = 0
        /\ mans[1].dv[1] = 0 /\ mans[1].dv[3] = 0
        /\ mans[2].dv[1] = 0 /\ mans[2].dv[3] = 0
        /\ mans[3].dv[3] = devs.i * SC

\* the singular branch has returned for a record with an inclination
\* deviation, with tangential impulses at theta0 # 0 and theta0 + pi
W_C25 ==
    /\ call = "solve_noncoplanar_sys"
    /\ stage = "returned"
    /\ branch = "noncoplanar_singular"
    /\ devs.i # 0
    /\ mans[1].angle # 0
    /\ mans[1].angle # atan2(devs.ey * SC, devs.ex * SC)
    /\ mans[1].dv[2] # 0
    /\ mans[2].dv[2] # 0
    /\ mans[3].dv[3] # 0

\* C26: every state in the list of execute_batch, the starting state copied
\* from the input included, has its true anomaly nu in [0, 2 pi).
C26_RecordedAnomaliesNormalized ==
    phase = "batch" =>
        \A k \in 1..Len(out) : out[k].nu >= 0 /\ out[k].nu < TwoPi

(***************************************************************************)
(* Termination of execute_batch.  The while loop is controlled by cur,     *)
(* u_cur and i alone; the two lists it appends to are never read by its    *)
(* conditions and are not carried here, so that a run of the loop that     *)
(* never ends is a cycle of states.  step may be zero or negative: the     *)
(* function does not check it.                                             *)
(***************************************************************************)
LoopSteps == Steps \cup { 0, 0 - (Pi \div 4) }

\* the maneuvers of the lists handed to the loop
LoopManeuvers ==
    { Maneuver(dv, ang) : dv \in { <<0, 1, 0>>, <<0, 0, 1>> },
                          ang \in { 0, 3, TwoPi - (Pi \div 4) } }

LoopInit ==
    /\ oi \in InitialStates
    /\ maneuvers \in SeqsUpTo(LoopManeuvers, MaxMan)
    /\ steps \in { <<s, s>> : s \in LoopSteps }
    /\ phase = "loop"
    /\ run = 1
    /\ cur_e = NoState
    /\ u_e = 0
    /\ k_e = 1
    /\ gaps_e = <<>>
    /\ ret_e = NoState
    /\ cur = oi
    /\ out = <<>>
    /\ abs_angles = <<>>
    /\ u_cur = u(oi)
    /\ i = 0
    /\ imps = <<>>
    /\ res = <<>>
    /\ PlannerIdle
    /\ UtilIdle

\* while i < len(maneuvers), the branch du_to_m <= step
LoopJump ==
    /\ phase = "loop"
    /\ i < Len(maneuvers)
    /\ ForwardGap(maneuvers[i + 1].angle, u_cur) <= steps[run]
    /\ \E du_to_m \in { ForwardGap(maneuvers[i + 1].angle, u_cur) } :
       \E pre \in { IF du_to_m > 0 THEN advance_by_du(cur, du_to_m) ELSE cur } :
       \E post \in { apply_impulse_orb(pre, maneuvers[i + 1].dv) } :
           /\ cur' = post
           /\ u_cur' = u(post)
    /\ i' = i + 1
    /\ UNCHANGED <<out, abs_angles, imps, phase, run, res>>
    /\ UNCHANGED executeVars
    /\ UNCHANGED inputVars
    /\ UNCHANGED <<planVars, utilVars>>

\* while i < len(maneuvers), the else branch
LoopStep ==
    /\ phase = "loop"
    /\ i < Len(maneuvers)
    /\ ForwardGap(maneuvers[i + 1].angle, u_cur) > steps[run]
    /\ cur' = advance_by_du(cur, steps[run])
    /\ u_cur' = u(advance_by_du(cur, steps[run]))
    /\ UNCHANGED <<i, out, abs_angles, imps, phase, run, res>>
    /\ UNCHANGED executeVars
    /\ UNCHANGED inputVars
    /\ UNCHANGED <<planVars, utilVars>>

\* the loop condition fails: return out, abs_angles
LoopReturn ==
    /\ phase = "loop"
    /\ i >= Len(maneuvers)
    /\ phase' = "returned"
    /\ UNCHANGED <<cur, u_cur, i, out, abs_angles, imps, run, res>>
    /\ UNCHANGED executeVars
    /\ UNCHANGED inputVars
    /\ UNCHANGED <<planVars, utilVars>>

LoopNext ==
    \/ LoopJump
    \/ LoopStep
    \/ LoopReturn

\* the interpreter keeps executing the loop
LoopFairSpec == LoopInit /\ [][LoopNext]_vars /\ WF_vars(LoopNext)

\* a maneuver is pending at a positive forward gap
pending_ahead ==
    /\ phase = "loop"
    /\ i < Len(maneuvers)
    /\ ForwardGap(maneuvers[i + 1].angle, u_cur) > 0

\* C27: for every finite maneuver list execute_batch terminates if
\* step > 0; with a step <= 0 and a pending maneuver at a positive forward
\* gap the loop never reaches the maneuver and never terminates.
C27_TerminatesIffStepPositive ==
    /\ (steps[1] > 0) => <>(phase = "returned")
    /\ []((steps[1] <= 0 /\ pending_ahead) => [](phase = "loop" /\ i < Len(maneuvers)))

(***************************************************************************)
(* The denominators of the non-intersecting coplanar solver.               *)
(***************************************************************************)
\* coplanar_non_intersecting: angle1 = atan2(ey, ex)
angle1(d) == atan2(d.ey, d.ex)

\* coplanar_non_intersecting: the denominator ey sin(angle1) +
\* ex cos(angle1) - a of dvt1
den1(d) == d.ey * SinS(angle1(d)) + d.ex * CosS(angle1(d)) - d.a * SC

\* coplanar_non_intersecting: dvt1 = (e^2 - a^2) / (4 den1)
dvt1(d) == RoundDiv(DivS((e2(d) - _sqr(d.a)) * SC, den1(d)), 4)

\* coplanar_non_intersecting: dvt2 = a / 2 - dvt1, the divisor of the two
\* arguments of atan2 of the second angle
dvt2(d) == RoundDiv(d.a * SC, 2) - dvt1(d)

\* solve_coplanar_sys was called with a coplanar record and took the
\* non-intersecting branch
non_intersecting_done ==
    /\ call = "solve_coplanar_sys"
    /\ Finished
    /\ BelowTol(devs.i)
    /\ branch = "coplanar_non_intersecting"

\* C28: for every non-coincident coplanar deviation record with e <= |a|,
\* the boundary e = |a| included, the denominator ey sin(angle1) +
\* ex cos(angle1) - a and the second tangential component dvt2 = a/2 - dvt1
\* are both nonzero, and solve_coplanar_sys returns two finite maneuvers.
C28_NonIntersectingDenominatorsNonzero ==
    non_intersecting_done =>
        /\ den1(devs) # 0
        /\ dvt2(devs) # 0
        /\ stage = "returned"
        /\ Len(mans) = 2
        /\ \A k \in 1..Len(mans) :
            /\ isfinite(mans[k].dv[2])
            /\ isfinite(mans[k].angle)

(***************************************************************************)
(* Consecutive maneuvers at the same angle.                                *)
(***************************************************************************)
\* maneuver k of the list has the angle of maneuver k - 1
same_angle_as_previous(k) == k >= 2 /\ maneuvers[k].angle = maneuvers[k - 1].angle

\* execute: the impulse of maneuver k left the true latitude of the state
\* it was applied to unchanged
execute_latitude_kept(k) ==
    u(apply_impulse_orb(gaps_e[k].at, maneuvers[k].dv)) = u(gaps_e[k].at)

\* execute_batch: the record written after the impulse of maneuver k has
\* the true latitude of the record before it, the state the impulse was
\* applied to
batch_latitude_kept(k) == u(out[imps[k].at + 1]) = u(out[imps[k].at])

\* C29: when consecutive maneuvers have the same angle and the first
\* impulse leaves the true latitude unchanged, execute and execute_batch
\* apply them in list order with zero passive advance between them, and
\* execute_batch records no pre-impulse state for the second one.
C29_SameAngleBackToBack ==
    /\ \A k \in 1..Len(gaps_e) :
        /\ gaps_e[k].man = k
        /\ (same_angle_as_previous(k) /\ execute_latitude_kept(k - 1)) =>
                gaps_e[k].du = 0
    /\ phase = "batch" =>
        \A k \in 1..Len(imps) :
            /\ imps[k].man = k
            /\ (same_angle_as_previous(k) /\ batch_latitude_kept(k - 1)) =>
                    /\ imps[k].du = 0
                    /\ imps[k].at = imps[k - 1].at + 1

(***************************************************************************)
(* The whole sequence within one revolution.                               *)
(***************************************************************************)
\* execute_batch has applied every maneuver of a non-empty list that meets
\* the two requirements of the docstring, and every impulse left the true
\* latitude unchanged
one_revolution_case ==
    /\ phase = "batch"
    /\ Len(maneuvers) >= 1
    /\ i = Len(maneuvers)
    /\ Precondition(oi, maneuvers)
    /\ \A k \in 1..Len(imps) : batch_latitude_kept(k)

\* C30: if the list is sorted ascending by angle, the first angle is >= the
\* initial true latitude and every impulse leaves the true latitude
\* unchanged, the total accumulated angle of execute_batch equals
\* (last maneuver angle - initial true latitude) and is < 2 pi.
C30_OneRevolution ==
    one_revolution_case =>
        /\ Last(abs_angles) = fl(Last(maneuvers).angle - u(oi))
        /\ Last(abs_angles) < TwoPi

====
